---- MODULE Spec2Model ----
(***************************************************************************)
(* Model of src/provider/invidious.js: the Invidious metadata client.      *)
(*                                                                         *)
(* One invocation of lookupPlaylist(id) is a process whose steps are the   *)
(* stretches of code between two awaits (JavaScript runs each of them      *)
(* without interruption).  The transport (request) is the environment: it  *)
(* answers each page request with a status code and a body.                *)
(*                                                                         *)
(* Scaling.  The code compares sizes against PLAYLIST_ITEM_LIMIT (2000 in  *)
(* the source) and does nothing else with it, so the model runs the same   *)
(* code with a small limit and a universe of PLAYLIST_ITEM_LIMIT + 1 video *)
(* ids, which is enough to stay below, to hit and to pass the limit.       *)
(*                                                                         *)
(* Video ids stand for YouTube id strings (never array indices), so        *)
(* Object.keys(resultsMap) lists them in insertion order; resultsMap is    *)
(* therefore a sequence of videos, one per key, in insertion order.        *)
(***************************************************************************)
EXTENDS Integers, Sequences, FiniteSets, TLC

\* ---- bounds of the model ----
\* invidious.js:5 sets 2000; scaled (see above).
PLAYLIST_ITEM_LIMIT == 3
\* pages a single invocation may request before the model stops it
MaxPage == 3

NumVideoIds == PLAYLIST_ITEM_LIMIT + 1
VideoIds == 1..NumVideoIds

NULL == "null"
Instances == {NULL, "https://invidious.example"}

\* ---- the upstream's answers ----
\* A playlist item as the API emits it: videoId, and lengthSeconds when the
\* video has a resolvable duration.  Playlist items carry no error field.
\* Every video can come with a duration of 60 seconds; video 1 also comes
\* without the field and video 2 with a duration of 0.
Videos ==
    {[videoId |-> i, lengthSeconds |-> 60] : i \in VideoIds}
        \cup {[videoId |-> 1], [videoId |-> 2, lengthSeconds |-> 0]}

\* The upstream puts none, one or two videos on a page.
PageSizes == {0, 1, 2}

VideoLists == UNION {[1..n -> Videos] : n \in PageSizes}

VideoCounts == 0..(PLAYLIST_ITEM_LIMIT + 1)

\* The decoded body of a playlist page: { videoCount, videos }.
PlaylistPages ==
    {[videoCount |-> c, videos |-> vs] :
        c \in VideoCounts, vs \in VideoLists}

\* A body is a string; what matters of it is whether JSON.parse accepts it and
\* what it then yields.
NonJsonBody == [parses |-> FALSE]
JsonBody(value) == [parses |-> TRUE, value |-> value]

StatusCodes == {200, 429, 404, 500, 503}

\* What request(url, {headers}) resolves to for a playlist page.
PlaylistResponses ==
    {[statusCode |-> 200, data |-> JsonBody(p)] : p \in PlaylistPages}
        \cup {[statusCode |-> s, data |-> NonJsonBody] : s \in StatusCodes}

\* ---- results of a call: a value or a thrown Error ----
Ok(value) == [ok |-> TRUE, value |-> value]
Throw(error) == [ok |-> FALSE, error |-> error]

\* The Error messages of the source, by the name the specification gives them.
NotConfigured == "NotConfigured"          \* 'Instance is not set for Invidious'
RateLimited == "RateLimited"              \* 'Try again later or set different instance.'
NotFound == "NotFound"                    \* '... is unavailable.'
Forbidden == "Forbidden"                  \* '... is private.'
UpstreamError(code) == "UpstreamError: HTTP " \o ToString(code)  \* 'HTTP ${res.statusCode}'
MalformedResponse == "MalformedResponse"  \* 'could not decode response as JSON'
PlaylistTooLong == "PlaylistTooLong"      \* 'YouTube Playlist is too long to queue'
InvalidItem == "InvalidItem"              \* 'Video is null' / 'Video contains error'

\* ivRequest with a 404 taken for a page without videos.
ivRequest_NotFoundAsEmpty(response) ==
    IF response.statusCode = 429 THEN Throw(RateLimited)
    ELSE IF response.statusCode = 404 THEN Ok([videoCount |-> 0, videos |-> << >>])
    ELSE IF response.statusCode = 500 THEN Throw(Forbidden)
    ELSE IF response.statusCode # 200 THEN Throw(UpstreamError(response.statusCode))
    ELSE IF response.data.parses THEN Ok(response.data.value)
    ELSE Throw(MalformedResponse)

\* ivRequest without the default branch of its switch: a status other than
\* 200, 429, 404 and 500 falls through to the parse.
ivRequest_NoDefault(response) ==
    IF response.statusCode = 429 THEN Throw(RateLimited)
    ELSE IF response.statusCode = 404 THEN Throw(NotFound)
    ELSE IF response.statusCode = 500 THEN Throw(Forbidden)
    ELSE IF response.data.parses THEN Ok(response.data.value)
    ELSE Throw(MalformedResponse)

\* ivRequest, from the resolved transport response on (lines 44-69).
ivRequest(response) ==
    IF response.statusCode = 429 THEN Throw(RateLimited)
    ELSE IF response.statusCode = 404 THEN Throw(NotFound)
    ELSE IF response.statusCode = 500 THEN Throw(Forbidden)
    ELSE IF response.statusCode # 200 THEN Throw(UpstreamError(response.statusCode))
    ELSE IF response.data.parses THEN Ok(response.data.value)
    ELSE Throw(MalformedResponse)

\* Truthiness taken for presence of the field: 0 passes.
Truthy_DefinedOnly(video, field) == field \in DOMAIN video

\* JavaScript truthiness of video.<field>: absent (undefined) and 0 are falsy.
Truthy(video, field) == field \in DOMAIN video /\ video[field] # 0

\* videoToMedia (lines 88-114); title and thumbnail are not modelled.
videoToMedia(video) ==
    IF Truthy(video, "error") THEN Throw(InvalidItem)
    ELSE Ok([id |-> video.videoId,
             type |-> "invidious",
             duration |-> IF "lengthSeconds" \in DOMAIN video
                          THEN <<video.lengthSeconds>> ELSE << >>])

\* The assignment of line 169 as a push onto a list.
Assign_Push(map, video) == Append(map, video)

\* resultsMap[video.videoId] = video on a map kept as the sequence of its
\* values in key (insertion) order: an existing key keeps its place.
Assign(map, video) ==
    IF \E i \in 1..Len(map) : map[i].videoId = video.videoId
    THEN [i \in 1..Len(map) |->
            IF map[i].videoId = video.videoId THEN video ELSE map[i]]
    ELSE Append(map, video)

\* res.videos.forEach(video => resultsMap[video.videoId] = video)
RECURSIVE MergeFrom(_, _, _)
MergeFrom(map, videos, i) ==
    IF i > Len(videos) THEN map
    ELSE MergeFrom(Assign(map, videos[i]), videos, i + 1)

Merge(map, videos) == MergeFrom(map, videos, 1)

\* Object.keys(resultsMap)
Keys(map) == [i \in 1..Len(map) |-> map[i].videoId]

\* Object.keys(resultsMap).length
KeysLength(map) == Len(Keys(map))

VARIABLES
    instance,      \* the module-scope base endpoint (line 7), set by setInstance
    pc,            \* where the invocation stands
    page,          \* let page (line 159)
    httpRes,       \* const res of ivRequest (line 43): the transport's last answer
    res,           \* let res (lines 163, 175)
    resultsMap,    \* const resultsMap (line 168)
    resultsLength, \* let resultsLength (line 170)
    outcome,       \* how the promise lookupPlaylist returned has settled
    requests,      \* history: the page numbers requested, in order
    served,        \* history: a summary of the pages the upstream has served
    fetched,       \* what the promise of ivRequest settled to
    op,            \* the exported function that was called, with its arguments
    cache,         \* the module-scope CACHE (line 9) and what it stores
    cached,        \* let cached of lookup (line 17)
    media,         \* let media of lookup (line 26)
    events,        \* history: the calls lookup made to the cache and the transport
    inv,           \* the locals of two invocations of lookupPlaylist
    maps,          \* the resultsMap objects (line 156) those invocations created
    upstream       \* the upstream's answer to each page number, once given

\* The variables of lookup and search, and those of two invocations at once.
apiVars == <<fetched, op, cache, cached, media, events>>
pairVars == <<inv, maps, upstream>>

vars ==
    <<instance, pc, page, httpRes, res, resultsMap, resultsLength, outcome,
      requests, served, apiVars, pairVars>>

NoHttpRes == [statusCode |-> 0, data |-> NonJsonBody]
NoRes == [videoCount |-> 0, videos |-> << >>]
Pending == [settled |-> FALSE]
Resolved(value) == [settled |-> TRUE, ok |-> TRUE, value |-> value]
Rejected(error) == [settled |-> TRUE, ok |-> FALSE, error |-> error]

\* The summary of the pages served (decoded bodies of 200 answers): how many,
\* the latest occurrence of every video id on them, whether one of them was
\* empty, whether all of them were the same page, and whether all of them
\* declared the same videoCount.
NothingServed ==
    [pages |-> 0, latest |-> << >>, empty |-> FALSE, same |-> TRUE, sameCount |-> TRUE]

LastOf(videos, id) ==
    LET last == CHOOSE i \in 1..Len(videos) :
                    /\ videos[i].videoId = id
                    /\ \A j \in (i + 1)..Len(videos) : videos[j].videoId # id
    IN  videos[last]

Serve(response) ==
    IF response.statusCode # 200 \/ ~response.data.parses THEN served
    ELSE LET body == response.data.value
             ids == {body.videos[i].videoId : i \in 1..Len(body.videos)}
         IN  [pages |-> served.pages + 1,
              latest |-> [id \in DOMAIN served.latest \cup ids |->
                            IF id \in ids THEN LastOf(body.videos, id)
                            ELSE served.latest[id]],
              empty |-> served.empty \/ body.videos = << >>,
              same |-> served.same /\ (served.pages = 0 \/ body = res),
              sameCount |-> served.sameCount
                              /\ (served.pages = 0 \/ body.videoCount = res.videoCount)]

\* An optional value (null or a value) is a sequence of length 0 or 1.
None == << >>
Some(value) == <<value>>

NotFetched == [settled |-> FALSE]
NoOp == [name |-> "none"]
NoCache == [configured |-> FALSE, store |-> None]
NoInvocations == << >>
NoMaps == << >>
NoUpstream == << >>

\* Nothing has been called yet.
Idle ==
    /\ pc = "idle"
    /\ page = 0
    /\ httpRes = NoHttpRes
    /\ res = NoRes
    /\ resultsMap = << >>
    /\ resultsLength = 0
    /\ outcome = Pending
    /\ requests = << >>
    /\ served = NothingServed
    /\ fetched = NotFetched
    /\ op = NoOp
    /\ cached = None
    /\ media = None
    /\ events = << >>
    /\ inv = NoInvocations
    /\ maps = NoMaps
    /\ upstream = NoUpstream

Init ==
    /\ instance \in Instances
    /\ cache = NoCache
    /\ Idle

\* throw / Promise.reject: the invocation ends with the error as its outcome.
Fail(error) ==
    /\ pc' = "done"
    /\ outcome' = Rejected(error)

\* lookupPlaylist up to its first await (lines 152-163).
Call ==
    /\ pc = "idle"
    /\ IF instance = NULL
       THEN /\ Fail(NotConfigured)
            /\ UNCHANGED <<page, requests>>
       ELSE /\ page' = 1
            /\ requests' = Append(requests, 1)
            /\ pc' = "page1"
            /\ UNCHANGED outcome
    /\ op' = [name |-> "lookupPlaylist"]
    /\ UNCHANGED <<instance, httpRes, res, resultsMap, resultsLength, served>>
    /\ UNCHANGED <<fetched, cache, cached, media, events, pairVars>>

\* Line 164 with the comparison off by one.
DeclaredTooLong_OffByOne(body) == body.videoCount > PLAYLIST_ITEM_LIMIT + 1

\* res.videoCount > PLAYLIST_ITEM_LIMIT (line 164)
DeclaredTooLong(body) == body.videoCount > PLAYLIST_ITEM_LIMIT

\* The first page arrives: lines 163-170.
FirstPage ==
    /\ pc = "page1"
    /\ \E response \in PlaylistResponses :
          LET r == ivRequest(response) IN
          /\ httpRes' = response
          /\ served' = Serve(response)
          /\ IF ~r.ok
             THEN /\ Fail(r.error)
                  /\ UNCHANGED <<res, resultsMap, resultsLength>>
             ELSE /\ res' = r.value
                  /\ IF DeclaredTooLong(r.value)
                     THEN /\ Fail(PlaylistTooLong)
                          /\ UNCHANGED <<resultsMap, resultsLength>>
                     ELSE /\ resultsMap' = Merge(<< >>, r.value.videos)
                          /\ resultsLength' = KeysLength(resultsMap')
                          /\ pc' = "loop"
                          /\ UNCHANGED outcome
    /\ UNCHANGED <<instance, page, requests, apiVars, pairVars>>

\* Line 171 without the test for an empty page.
LoopCondition_NoEmptyStop ==
    /\ resultsLength < PLAYLIST_ITEM_LIMIT
    /\ resultsLength # res.videoCount

\* Line 171 without the test against videoCount.
LoopCondition_NoTotal ==
    /\ Len(res.videos) # 0
    /\ resultsLength < PLAYLIST_ITEM_LIMIT

\* Line 171 as the condition of a do-while: the body runs once at least.
LoopCondition_DoWhile ==
    \/ page = 1
    \/ /\ Len(res.videos) # 0
       /\ resultsLength < PLAYLIST_ITEM_LIMIT
       /\ resultsLength # res.videoCount

\* Line 171 without the ceiling test.
LoopCondition_NoCeiling ==
    /\ Len(res.videos) # 0
    /\ resultsLength # res.videoCount

\* The while condition of line 171.
LoopCondition ==
    /\ Len(res.videos) # 0
    /\ resultsLength < PLAYLIST_ITEM_LIMIT
    /\ resultsLength # res.videoCount

\* Lines 171-175 without the page++ of line 172.
RequestNextPage_SamePage ==
    /\ pc = "loop"
    /\ LoopCondition
    /\ Len(requests) < MaxPage
    /\ page' = page
    /\ requests' = Append(requests, page')
    /\ pc' = "next"
    /\ UNCHANGED <<instance, httpRes, res, resultsMap, resultsLength, outcome, served>>
    /\ UNCHANGED <<apiVars, pairVars>>

\* The loop goes round: lines 171-175, up to the await.
RequestNextPage ==
    /\ pc = "loop"
    /\ LoopCondition
    /\ page < MaxPage
    /\ page' = page + 1
    /\ requests' = Append(requests, page')
    /\ pc' = "next"
    /\ UNCHANGED <<instance, httpRes, res, resultsMap, resultsLength, outcome, served>>
    /\ UNCHANGED <<apiVars, pairVars>>

\* Lines 175-177 with the check of line 164 repeated on every page.
NextPage_Checked ==
    /\ pc = "next"
    /\ \E response \in PlaylistResponses :
          LET r == ivRequest(response) IN
          /\ httpRes' = response
          /\ served' = Serve(response)
          /\ IF ~r.ok
             THEN /\ Fail(r.error)
                  /\ UNCHANGED <<res, resultsMap, resultsLength>>
             ELSE /\ res' = r.value
                  /\ IF DeclaredTooLong(r.value)
                     THEN /\ Fail(PlaylistTooLong)
                          /\ UNCHANGED <<resultsMap, resultsLength>>
                     ELSE /\ resultsMap' = Merge(resultsMap, r.value.videos)
                          /\ resultsLength' = KeysLength(resultsMap')
                          /\ pc' = "loop"
                          /\ UNCHANGED outcome
    /\ UNCHANGED <<instance, page, requests, apiVars, pairVars>>

\* A later page arrives: lines 175-177.
NextPage ==
    /\ pc = "next"
    /\ \E response \in PlaylistResponses :
          LET r == ivRequest(response) IN
          /\ httpRes' = response
          /\ served' = Serve(response)
          /\ IF ~r.ok
             THEN /\ Fail(r.error)
                  /\ UNCHANGED <<res, resultsMap, resultsLength>>
             ELSE /\ res' = r.value
                  /\ resultsMap' = Merge(resultsMap, r.value.videos)
                  /\ resultsLength' = KeysLength(resultsMap')
                  /\ pc' = "loop"
                  /\ UNCHANGED outcome
    /\ UNCHANGED <<instance, page, requests, apiVars, pairVars>>

\* Line 180 with > for >=.
LengthCheckFails_Strict == resultsLength > PLAYLIST_ITEM_LIMIT

\* resultsLength >= PLAYLIST_ITEM_LIMIT (line 180)
LengthCheckFails == resultsLength >= PLAYLIST_ITEM_LIMIT

\* Object.keys(resultsMap).filter(key => resultsMap[key].lengthSeconds)
WithDuration(map) == SelectSeq(map, LAMBDA video : Truthy(video, "lengthSeconds"))

\* .map(key => videoToMedia(resultsMap[key])): a throw ends the map.
MapToMedia(videos) ==
    IF \E i \in 1..Len(videos) : ~videoToMedia(videos[i]).ok
    THEN Throw(InvalidItem)
    ELSE Ok([i \in 1..Len(videos) |-> videoToMedia(videos[i]).value])

\* The loop ends: lines 171 and 180-185.
Finish ==
    /\ pc = "loop"
    /\ ~LoopCondition
    /\ pc' = "done"
    /\ outcome' =
          IF LengthCheckFails
          THEN Rejected(PlaylistTooLong)
          ELSE LET medias == MapToMedia(WithDuration(resultsMap)) IN
               IF medias.ok THEN Resolved(medias.value) ELSE Rejected(medias.error)
    /\ UNCHANGED <<instance, page, httpRes, res, resultsMap, resultsLength, requests,
                   served, apiVars, pairVars>>

Next == Call \/ FirstPage \/ RequestNextPage \/ NextPage \/ Finish

Spec == Init /\ [][Next]_vars

(***************************************************************************)
(* Properties of lookupPlaylist.                                           *)
(***************************************************************************)

\* The ids of the videos the pages served so far carried.
SeenIds == DOMAIN served.latest

\* Page 1 passed the check of line 164 and has been merged.
FirstPageMerged == served.pages >= 1 /\ ~(served.pages = 1 /\ res.videoCount > PLAYLIST_ITEM_LIMIT)

\* Every request so far was answered with a page (status 200, decodable body).
AllFetchesSucceeded == served.pages = Len(requests)

HasDuration(video) == "lengthSeconds" \in DOMAIN video /\ video.lengthSeconds # 0

\* value holds one descriptor for each accumulated video with a non-zero
\* duration, and nothing else, in the order of the accumulator.
IsFilteredAccumulator(value) ==
    LET kept == {k \in 1..Len(resultsMap) : HasDuration(resultsMap[k])} IN
    /\ Len(value) = Cardinality(kept)
    /\ \A i \in 1..Len(value) :
          \E k \in kept :
             /\ Cardinality({j \in kept : j < k}) = i - 1
             /\ value[i].id = resultsMap[k].videoId
             /\ value[i].duration = <<resultsMap[k].lengthSeconds>>

\* C1 (as claimed): an upstream that answers every request with the same
\* non-empty page makes the loop end after finitely many fetches, through an
\* empty page or through size = videoCount.  Merging a page a second time
\* changes neither resultsMap nor res, so the loop condition after the second
\* such page is the one after the first: the loop ends if and only if it asks
\* for no page once two identical pages have been merged.
C1_SamePagesLoopExits ==
    (FirstPageMerged /\ served.pages >= 2 /\ served.same /\ res.videos # << >>)
        => pc # "next"

\* C2 (as claimed): the accumulator never holds more than PLAYLIST_ITEM_LIMIT
\* entries.
C2_AccumulatorWithinLimit == Len(resultsMap) <= PLAYLIST_ITEM_LIMIT

\* C2 (amended): once the accumulator holds PLAYLIST_ITEM_LIMIT entries or
\* more it never changes again, no further page is requested, and the
\* invocation ends with PlaylistTooLong.
C2_NoGrowthAtLimit ==
    [][Len(resultsMap) >= PLAYLIST_ITEM_LIMIT
          => /\ resultsMap' = resultsMap
             /\ requests' = requests
             /\ pc' = "done" => outcome' = Rejected(PlaylistTooLong)]_vars

\* A merge took the accumulator past the limit and the invocation failed.
C2_Witness ==
    /\ pc = "done"
    /\ Len(resultsMap) > PLAYLIST_ITEM_LIMIT
    /\ outcome = Rejected(PlaylistTooLong)

\* C3 (as claimed): when every fetch succeeded, every page declared the same
\* videoCount, and the number of distinct videos served equals that count and
\* is at most PLAYLIST_ITEM_LIMIT, the invocation resolves with the
\* descriptors of the accumulated videos that have a non-zero duration.
C3_CompletePlaylistSucceeds ==
    (/\ pc = "done"
     /\ served.pages >= 1
     /\ AllFetchesSucceeded
     /\ served.sameCount
     /\ Cardinality(SeenIds) = res.videoCount
     /\ res.videoCount <= PLAYLIST_ITEM_LIMIT)
        => (outcome.ok /\ IsFilteredAccumulator(outcome.value))

\* C4: when page 1 declares a videoCount above PLAYLIST_ITEM_LIMIT the
\* invocation has failed with PlaylistTooLong, page 1 is the only page ever
\* requested and there is no result.
C4_DeclaredTooLongFailsAtOnce ==
    (served.pages = 1 /\ res.videoCount > PLAYLIST_ITEM_LIMIT)
        => /\ pc = "done"
           /\ outcome = Rejected(PlaylistTooLong)
           /\ requests = <<1>>
           /\ resultsMap = << >>

\* Page 1 carried videos, declared too many, and the invocation failed.
C4_Witness ==
    /\ pc = "done"
    /\ served.pages = 1
    /\ res.videoCount > PLAYLIST_ITEM_LIMIT
    /\ res.videos # << >>
    /\ outcome = Rejected(PlaylistTooLong)

\* C5: an invocation that ends with PLAYLIST_ITEM_LIMIT or more accumulated
\* entries ends with PlaylistTooLong and no items; every result returned comes
\* from an accumulator of fewer than PLAYLIST_ITEM_LIMIT entries.
C5_AtLimitRejected ==
    pc = "done"
        => /\ Len(resultsMap) >= PLAYLIST_ITEM_LIMIT => outcome = Rejected(PlaylistTooLong)
           /\ outcome.ok => Len(resultsMap) < PLAYLIST_ITEM_LIMIT

\* The accumulator reached the limit exactly, over two pages, and was rejected.
C5_Witness ==
    /\ pc = "done"
    /\ served.pages >= 2
    /\ Len(resultsMap) = PLAYLIST_ITEM_LIMIT
    /\ outcome = Rejected(PlaylistTooLong)

\* C6: once a page without videos has been merged, it is the last page
\* requested; and when the loop ends there with fewer than PLAYLIST_ITEM_LIMIT
\* entries, not as many as declared, the invocation resolves with the
\* descriptors of the accumulated videos that have a non-zero duration.
C6_EmptyPageEndsLoop ==
    (FirstPageMerged /\ served.empty)
        => /\ pc \in {"loop", "done"}
           /\ res.videos = << >>
           /\ Len(requests) = served.pages
           /\ (/\ pc = "done"
               /\ Len(resultsMap) < PLAYLIST_ITEM_LIMIT
               /\ Len(resultsMap) # res.videoCount)
                  => (outcome.ok /\ IsFilteredAccumulator(outcome.value))

\* Page 2 or 3 was empty, short of the declared count, and the invocation
\* returned some of what it had accumulated.
C6_Witness ==
    /\ pc = "done"
    /\ served.empty
    /\ served.pages >= 2
    /\ Len(resultsMap) < res.videoCount
    /\ outcome.ok
    /\ outcome.value # << >>
    /\ Len(outcome.value) < Len(resultsMap)

\* C7: once page 1 is merged, the accumulator holds each video id served so
\* far exactly once, with the latest occurrence served, and resultsLength is
\* the number of distinct ids served.
C7_AccumulatorIsDistinctIds ==
    (FirstPageMerged /\ pc \in {"loop", "next", "done"})
        => /\ resultsLength = Cardinality(SeenIds)
           /\ Len(resultsMap) = Cardinality(SeenIds)
           /\ \A id \in SeenIds :
                 \E k \in 1..Len(resultsMap) :
                    /\ resultsMap[k] = served.latest[id]
                    /\ \A j \in 1..Len(resultsMap) :
                          resultsMap[j].videoId = id => j = k

\* Page 2 carried twice, in two versions, the one video page 1 had carried.
C7_Witness ==
    /\ pc = "loop"
    /\ served.pages = 2
    /\ Len(res.videos) = 2
    /\ res.videos[1].videoId = res.videos[2].videoId
    /\ res.videos[1] # res.videos[2]
    /\ resultsMap = <<res.videos[2]>>
    /\ resultsLength = 1

\* C8: with a page merged, the next page is requested if and only if that
\* page held videos, the accumulator holds fewer than PLAYLIST_ITEM_LIMIT
\* entries, and it does not hold as many as the page declared; and a page
\* beyond the first is requested at no other point.
C8_NextPageIffCondition ==
    [][/\ pc = "loop"
          => ((pc' = "next" /\ requests' = Append(requests, page + 1))
                <=> (/\ Len(res.videos) > 0
                     /\ Len(resultsMap) < PLAYLIST_ITEM_LIMIT
                     /\ Len(resultsMap) # res.videoCount))
       /\ (requests' # requests /\ pc # "idle") => pc = "loop"]_vars

\* Page 3 has been requested with the accumulator one short of the limit.
C8_Witness ==
    /\ pc = "next"
    /\ page = 3
    /\ requests = <<1, 2, 3>>
    /\ Len(resultsMap) = PLAYLIST_ITEM_LIMIT - 1

\* C9 (as claimed): when page 1 declares a videoCount of 0, whatever videos
\* it carries, no further page is requested and the result is empty.
C9_DeclaredZeroOnePage ==
    (served.pages = 1 /\ res.videoCount = 0)
        => /\ requests = <<1>>
           /\ pc = "done" => outcome = Resolved(<< >>)

\* C9 (amended): when page 1 declares a videoCount of 0 and carries no
\* videos, no further page is requested and the result is empty.
C9_DeclaredZeroEmptyPage ==
    (served.pages = 1 /\ res.videoCount = 0 /\ res.videos = << >>)
        => /\ requests = <<1>>
           /\ pc \in {"loop", "done"}
           /\ pc = "done" => outcome = Resolved(<< >>)

\* Page 1 declared 0 videos, carried none, and the result is empty.
C9_Witness ==
    /\ pc = "done"
    /\ served.pages = 1
    /\ res = [videoCount |-> 0, videos |-> << >>]
    /\ outcome = Resolved(<< >>)

\* The errors ivRequest throws.
FetchErrors ==
    {RateLimited, NotFound, Forbidden, MalformedResponse}
        \cup {UpstreamError(code) : code \in StatusCodes}

\* C10: when the transport's answer to the request for page k is not a 200
\* with a decodable body, the invocation has ended with a fetch error and no
\* result; pages 1..k were requested once each and nothing after page k.
C10_FetchFailureIsTheOutcome ==
    (httpRes \in PlaylistResponses /\ (httpRes.statusCode # 200 \/ ~httpRes.data.parses))
        => /\ pc = "done"
           /\ outcome.settled /\ ~outcome.ok
           /\ outcome.error \in FetchErrors
           /\ Len(requests) = served.pages + 1
           /\ \A i \in 1..Len(requests) : requests[i] = i

\* The request for page 2 failed with videos of page 1 accumulated.
C10_Witness ==
    /\ pc = "done"
    /\ page = 2
    /\ httpRes.statusCode = 500
    /\ resultsMap # << >>
    /\ outcome = Rejected(Forbidden)

\* The transport has answered the last request with a failure.
FetchFailed ==
    httpRes \in PlaylistResponses /\ (httpRes.statusCode # 200 \/ ~httpRes.data.parses)

\* Requests the transport has not answered yet.
InFlight == Len(requests) - (served.pages + IF FetchFailed THEN 1 ELSE 0)

\* C15: the pages requested are 1, 2, ..., page, each once and in order; at
\* most one request is unanswered, and one is exactly while the invocation
\* waits; page n + 1 is requested only with pages 1..n answered and merged.
C15_SequentialPagination ==
    /\ Len(requests) = page
    /\ \A i \in 1..Len(requests) : requests[i] = i
    /\ InFlight \in {0, 1}
    /\ InFlight = 1 <=> pc \in {"page1", "next"}
    /\ pc = "next" => /\ served.pages = page - 1
                      /\ Len(resultsMap) = Cardinality(SeenIds)
                      /\ resultsLength = Len(resultsMap)

\* Three pages were requested in turn and the third is merged.
C15_Witness ==
    /\ pc = "loop"
    /\ page = 3
    /\ served.pages = 3
    /\ requests = <<1, 2, 3>>
    /\ Len(resultsMap) >= 2

\* C17: a video without a duration, or with a duration of 0, is accumulated
\* and counted like any other; no descriptor returned has a missing or zero
\* duration, none is returned for such a video, and an invocation whose
\* fetches succeeded and that ends below the limit resolves all the same.
C17_NoDurationKeptNotReturned ==
    /\ (FirstPageMerged /\ pc \in {"loop", "next", "done"})
          => /\ \A id \in SeenIds : \E k \in 1..Len(resultsMap) : resultsMap[k].videoId = id
             /\ resultsLength = Len(resultsMap)
    /\ (pc = "done" /\ outcome.ok)
          => /\ \A i \in 1..Len(outcome.value) :
                   outcome.value[i].duration \notin {<< >>, <<0>>}
             /\ \A k \in 1..Len(resultsMap) :
                   ~HasDuration(resultsMap[k])
                      => \A i \in 1..Len(outcome.value) :
                            outcome.value[i].id # resultsMap[k].videoId
    /\ (/\ pc = "done"
        /\ FirstPageMerged
        /\ AllFetchesSucceeded
        /\ Len(resultsMap) < PLAYLIST_ITEM_LIMIT)
          => outcome.ok

\* A video without the duration field was counted towards the declared
\* total, which ended the loop, and was left out of the result.
C17_Witness ==
    /\ pc = "done"
    /\ outcome.ok
    /\ Len(resultsMap) = 2
    /\ \E k \in 1..2 : "lengthSeconds" \notin DOMAIN resultsMap[k]
    /\ resultsLength = res.videoCount
    /\ Len(outcome.value) = 1

\* The last answer was a page.
PageArrived == httpRes.statusCode = 200 /\ httpRes.data.parses

\* C19: a page after the first replaces res, videoCount included, and is
\* not checked against the limit: after two pages or more the invocation
\* fails with PlaylistTooLong only for an accumulator at or above the limit,
\* whatever the page declares.
C19_LaterCountOnlyInLoop ==
    (served.pages >= 2 /\ PageArrived)
        => /\ res = httpRes.data.value
           /\ pc \in {"loop", "next", "done"}
           /\ pc = "done" => (outcome.ok <=> Len(resultsMap) < PLAYLIST_ITEM_LIMIT)
           /\ (pc = "done" /\ ~outcome.ok) => outcome.error = PlaylistTooLong

\* Page 2 or 3 declared more videos than the limit and the invocation
\* returned descriptors.
C19_Witness ==
    /\ pc = "done"
    /\ served.pages >= 2
    /\ res.videoCount > PLAYLIST_ITEM_LIMIT
    /\ outcome.ok
    /\ outcome.value # << >>

\* ---------------------------------------------------------------------------
\* ivRequest on its own: one request, any status with any body.
\* ---------------------------------------------------------------------------

\* Statuses the transport can answer with; 302, 403 and 503 take the default
\* branch of the switch (line 58).
TransportStatusCodes == StatusCodes \cup {302, 403}

\* A body of any status may or may not be JSON.
TransportBodies == {NonJsonBody} \cup {JsonBody(p) : p \in PlaylistPages}

TransportResponses ==
    {[statusCode |-> s, data |-> b] : s \in TransportStatusCodes, b \in TransportBodies}

FetchInit ==
    /\ instance = "https://invidious.example"
    /\ cache = NoCache
    /\ Idle

\* request(url, {headers}) resolves and ivRequest settles (lines 39-69).
Fetch ==
    /\ pc = "idle"
    /\ \E response \in TransportResponses :
        /\ httpRes' = response
        /\ fetched' = [settled |-> TRUE, result |-> ivRequest(response)]
    /\ pc' = "fetched"
    /\ UNCHANGED <<instance, page, res, resultsMap, resultsLength, outcome, requests,
                   served, op, cache, cached, media, events, pairVars>>

FetchNext == Fetch

FetchSpec == FetchInit /\ [][FetchNext]_vars

\* C11: ivRequest maps the HTTP status to its outcome: 429 fails with
\* RateLimited, 404 with NotFound, 500 with Forbidden, any other status but
\* 200 with UpstreamError carrying the code; 200 yields the parsed body, or
\* MalformedResponse when the body is not JSON; no status but 200 yields data,
\* whatever its body.
C11_StatusDecidesOutcome ==
    pc = "fetched" =>
        LET status == httpRes.statusCode
            result == fetched.result
        IN  /\ status = 429 => result = Throw(RateLimited)
            /\ status = 404 => result = Throw(NotFound)
            /\ status = 500 => result = Throw(Forbidden)
            /\ status \notin {200, 429, 404, 500}
                   => result = Throw(UpstreamError(status))
            /\ (status = 200 /\ httpRes.data.parses)
                   => result = Ok(httpRes.data.value)
            /\ (status = 200 /\ ~httpRes.data.parses)
                   => result = Throw(MalformedResponse)
            /\ status # 200 => ~result.ok
            /\ \A other \in TransportStatusCodes \ {status} :
                   result # Throw(UpstreamError(other))

\* A 503 whose body is valid JSON is refused with its code.
C11_Witness ==
    /\ pc = "fetched"
    /\ httpRes.statusCode = 503
    /\ httpRes.data.parses
    /\ httpRes.data.value.videos # << >>
    /\ fetched.result = Throw(UpstreamError(503))

\* ---------------------------------------------------------------------------
\* lookup, search and the first step of lookupPlaylist, with a cache that may
\* be set or not.
\* ---------------------------------------------------------------------------

MaxPageToken == 2

playlistVars == <<page, res, resultsMap, resultsLength, served>>

\* The Media the cache holds for the id before the call, when it holds one.
StoredMedia == [id |-> 1, type |-> "invidious", duration |-> <<45>>]

\* setCache was called or not; the cache holds the id or not.
Caches ==
    {NoCache,
     [configured |-> TRUE, store |-> None],
     [configured |-> TRUE, store |-> Some(StoredMedia)]}

\* The decoded body of /api/v1/videos/<id>; an error field of 1 stands for a
\* non-empty error message.
LookupVideos ==
    {[videoId |-> 1, lengthSeconds |-> 60],
     [videoId |-> 1],
     [videoId |-> 1, lengthSeconds |-> 60, error |-> 1]}

VideoResponses ==
    {[statusCode |-> 200, data |-> JsonBody(v)] : v \in LookupVideos}
        \cup {[statusCode |-> s, data |-> NonJsonBody] : s \in StatusCodes}

\* The items of a page of /api/v1/search.
SearchVideos ==
    {[videoId |-> 1, lengthSeconds |-> 60],
     [videoId |-> 2],
     [videoId |-> 3, lengthSeconds |-> 60, error |-> 1]}

SearchResultLists == UNION {[1..n -> SearchVideos] : n \in PageSizes}

SearchResponses ==
    {[statusCode |-> 200, data |-> JsonBody(r)] : r \in SearchResultLists}
        \cup {[statusCode |-> s, data |-> NonJsonBody] : s \in StatusCodes}

\* The nextPage argument of search: false (None) or a page number.
SearchTokens == {None} \cup {Some(n) : n \in 1..MaxPageToken}

\* A call lookup made to a collaborator, or a collaborator's throw.
Event(call, arg) == [call |-> call, arg |-> arg]

Calls(call) == {i \in 1..Len(events) : events[i].call = call}

ApiInit ==
    /\ instance \in Instances
    /\ cache \in Caches
    /\ Idle

\* lookup after _lookupInternal resolved to m (lines 26-29): the put is
\* attempted when a cache is set.
Obtained(m, log) ==
    /\ media' = Some(m)
    /\ IF cache.configured
       THEN /\ events' = Append(log, Event("put", Some(m)))
            /\ pc' = "put"
            /\ UNCHANGED outcome
       ELSE /\ events' = log
            /\ pc' = "done"
            /\ outcome' = Resolved(m)

\* lookup returning the cached Media at once, without the put.
LookupInternal_HitSkipsPut(c, log) ==
    /\ cached' = c
    /\ IF c # None
       THEN /\ media' = c
            /\ events' = log
            /\ pc' = "done"
            /\ outcome' = Resolved(c[1])
       ELSE IF instance = NULL
       THEN /\ Fail(NotConfigured)
            /\ events' = log
            /\ UNCHANGED media
       ELSE /\ events' = Append(log, Event("request", None))
            /\ pc' = "video"
            /\ UNCHANGED <<media, outcome>>

\* _lookupInternal(id, cached) up to its request (lines 26, 72-83), c being
\* what line 20 left in cached.
LookupInternal(c, log) ==
    /\ cached' = c
    /\ IF c # None
       THEN Obtained(c[1], log)
       ELSE IF instance = NULL
       THEN /\ Fail(NotConfigured)
            /\ events' = log
            /\ UNCHANGED media
       ELSE /\ events' = Append(log, Event("request", None))
            /\ pc' = "video"
            /\ UNCHANGED <<media, outcome>>

\* lookup(id) up to its first await (lines 16-20, or 16-26 and 72-83 when no
\* cache is set).
LookupCall ==
    /\ pc = "idle"
    /\ op' = [name |-> "lookup", id |-> 1]
    /\ IF cache.configured
       THEN /\ events' = <<Event("get", None)>>
            /\ pc' = "get"
            /\ UNCHANGED <<cached, media, outcome>>
       ELSE LookupInternal(None, << >>)
    /\ UNCHANGED <<instance, cache, httpRes, fetched, requests, playlistVars, pairVars>>

\* CACHE.get settles (lines 19-26): with the stored value, with nothing, or
\* with a throw that line 21 catches.
CacheGetReturns ==
    /\ pc = "get"
    /\ \E threw \in BOOLEAN :
        IF threw
        THEN LookupInternal(None, Append(events, Event("get threw", None)))
        ELSE LookupInternal(cache.store, events)
    /\ UNCHANGED <<instance, op, cache, httpRes, fetched, requests, playlistVars, pairVars>>

\* The video request settles (lines 43-69, 83-85, 26-29).
VideoArrives ==
    /\ pc = "video"
    /\ \E response \in VideoResponses :
        LET r == ivRequest(response)
        IN  /\ httpRes' = response
            /\ fetched' = [settled |-> TRUE, result |-> r]
            /\ IF ~r.ok
               THEN /\ Fail(r.error)
                    /\ UNCHANGED <<media, events>>
               ELSE LET m == videoToMedia(r.value)
                    IN  IF ~m.ok
                        THEN /\ Fail(m.error)
                             /\ UNCHANGED <<media, events>>
                        ELSE Obtained(m.value, events)
    /\ UNCHANGED <<instance, op, cache, cached, requests, playlistVars, pairVars>>

\* CACHE.put settles, its throw rejecting the lookup.
CachePutReturns_Propagates ==
    /\ pc = "put"
    /\ \E threw \in BOOLEAN :
        IF threw
        THEN /\ events' = Append(events, Event("put threw", None))
             /\ outcome' = Rejected("put threw")
             /\ UNCHANGED cache
        ELSE /\ cache' = [cache EXCEPT !.store = media]
             /\ outcome' = Resolved(media[1])
             /\ UNCHANGED events
    /\ pc' = "done"
    /\ UNCHANGED <<instance, op, cached, media, httpRes, fetched, requests,
                   playlistVars, pairVars>>

\* CACHE.put settles (lines 29-35): it stored the Media, or threw and line 30
\* caught it; lookup returns media either way.
CachePutReturns ==
    /\ pc = "put"
    /\ \E threw \in BOOLEAN :
        IF threw
        THEN /\ events' = Append(events, Event("put threw", None))
             /\ UNCHANGED cache
        ELSE /\ cache' = [cache EXCEPT !.store = media]
             /\ UNCHANGED events
    /\ pc' = "done"
    /\ outcome' = Resolved(media[1])
    /\ UNCHANGED <<instance, op, cached, media, httpRes, fetched, requests,
                   playlistVars, pairVars>>

\* page: nextPage ? nextPage : 1 (line 131).
PageParam(nextPage) == IF nextPage # None THEN nextPage[1] ELSE 1

\* Lines 136-137 without line 137.
NextPageNumber_NoTerminal(nextPage, result) ==
    Some(IF nextPage = None THEN 2 ELSE nextPage[1] + 1)

\* nextPageNumber (lines 136-137); None is false.
NextPageNumber(nextPage, result) ==
    IF Len(result) = 0 THEN None
    ELSE Some(IF nextPage = None THEN 2 ELSE nextPage[1] + 1)

\* result.map(video => videoToMedia(video)) (line 141): the first throw is the
\* throw of the whole.
MapAll(result) ==
    IF \E i \in 1..Len(result) : ~videoToMedia(result[i]).ok
    THEN Throw(InvalidItem)
    ELSE Ok([i \in 1..Len(result) |-> videoToMedia(result[i]).value])

\* search without the check of line 123.
SearchCall_NoCheck ==
    /\ pc = "idle"
    /\ \E nextPage \in SearchTokens :
        /\ op' = [name |-> "search", nextPage |-> nextPage]
        /\ requests' = <<PageParam(nextPage)>>
        /\ pc' = "search"
        /\ UNCHANGED outcome
    /\ UNCHANGED <<instance, cache, cached, media, events, httpRes, fetched,
                   playlistVars, pairVars>>

\* search(query, nextPage) up to its request (lines 122-135).
SearchCall ==
    /\ pc = "idle"
    /\ \E nextPage \in SearchTokens :
        /\ op' = [name |-> "search", nextPage |-> nextPage]
        /\ IF instance = NULL
           THEN /\ Fail(NotConfigured)
                /\ UNCHANGED requests
           ELSE /\ requests' = <<PageParam(nextPage)>>
                /\ pc' = "search"
                /\ UNCHANGED outcome
    /\ UNCHANGED <<instance, cache, cached, media, events, httpRes, fetched,
                   playlistVars, pairVars>>

\* The search request settles (lines 43-69, 135-143).
SearchArrives ==
    /\ pc = "search"
    /\ \E response \in SearchResponses :
        LET r == ivRequest(response)
        IN  /\ httpRes' = response
            /\ fetched' = [settled |-> TRUE, result |-> r]
            /\ IF ~r.ok
               THEN Fail(r.error)
               ELSE LET m == MapAll(r.value)
                    IN  IF ~m.ok
                        THEN Fail(m.error)
                        ELSE /\ pc' = "done"
                             /\ outcome' =
                                    Resolved([nextPage |-> NextPageNumber(op.nextPage, r.value),
                                              results |-> m.value])
    /\ UNCHANGED <<instance, op, cache, cached, media, events, requests,
                   playlistVars, pairVars>>

ApiNext ==
    \/ LookupCall
    \/ CacheGetReturns
    \/ VideoArrives
    \/ CachePutReturns
    \/ SearchCall
    \/ SearchArrives
    \/ Call

ApiSpec == ApiInit /\ [][ApiNext]_vars

\* What the network fetch and the item mapping decide for a lookup that has no
\* cached value.
NetworkOutcome ==
    IF instance = NULL THEN Rejected(NotConfigured)
    ELSE IF httpRes.statusCode # 200 \/ ~httpRes.data.parses
    THEN Rejected(ivRequest(httpRes).error)
    ELSE IF Truthy(httpRes.data.value, "error") THEN Rejected(InvalidItem)
    ELSE Resolved(videoToMedia(httpRes.data.value).value)

\* C12: whatever the cache does (get: hit, miss or throw; put: success or
\* throw), lookup never fails because of it: a get that threw counts as a miss,
\* a put that threw is ignored, and the outcome is the cached value on a hit
\* and otherwise what the network fetch and the item mapping decide.
C12_CacheNeverFailsLookup ==
    (op.name = "lookup" /\ pc = "done") =>
        /\ ~outcome.ok => outcome.error \in FetchErrors \cup {NotConfigured, InvalidItem}
        /\ Calls("get threw") # {} => cached = None
        /\ cached # None => outcome = Resolved(cached[1])
        /\ cached = None => outcome = NetworkOutcome

\* Both the get and the put threw, and the lookup returned the fetched video.
C12_Witness ==
    /\ op.name = "lookup"
    /\ pc = "done"
    /\ Calls("get threw") # {}
    /\ Calls("put threw") # {}
    /\ outcome.ok
    /\ outcome.value.duration = <<60>>

C13_WitnessEmpty ==
    /\ op.name = "search"
    /\ pc = "done"
    /\ op.nextPage = None
    /\ outcome.ok
    /\ outcome.value = [nextPage |-> None, results |-> << >>]

\* C18: with the instance unset, lookupPlaylist and search fail with
\* NotConfigured, and so does lookup whenever the cache gave no value (no
\* cache, a miss, or a get that threw); no network request is issued, the
\* accumulator stays empty and no cache put is attempted.
C18_NotConfiguredFailsFirst ==
    instance = NULL =>
        /\ pc \notin {"page1", "video", "search"}
        /\ requests = << >>
        /\ Calls("request") = {}
        /\ httpRes = NoHttpRes
        /\ (/\ pc = "done"
            /\ \/ op.name \in {"lookupPlaylist", "search"}
               \/ op.name = "lookup" /\ cached = None)
           => /\ outcome = Rejected(NotConfigured)
              /\ resultsMap = << >>
              /\ resultsLength = 0
              /\ Calls("put") = {}
              /\ cache.store \in {None, Some(StoredMedia)}

\* A lookup whose cache get threw fails with NotConfigured.
C18_Witness ==
    /\ instance = NULL
    /\ op.name = "lookup"
    /\ pc = "done"
    /\ Calls("get threw") # {}
    /\ outcome = Rejected(NotConfigured)

\* C20: in a lookup with a cache set, the get comes first and has settled
\* before any network request; on a hit no request is issued and the cached
\* Media is returned; the put is attempted exactly once, with the returned
\* Media, in every lookup that returns one (on a hit too), and never in a
\* lookup that fails.
C20_GetThenFetchThenPut ==
    (op.name = "lookup" /\ cache.configured) =>
        /\ events[1].call = "get"
        /\ Cardinality(Calls("get")) = 1
        /\ pc = "get" => Calls("request") = {}
        /\ Cardinality(Calls("request")) <= 1
        /\ cached # None
               => /\ Calls("request") = {}
                  /\ httpRes = NoHttpRes
                  /\ cached = Some(StoredMedia)
                  /\ pc \in {"put", "done"}
                  /\ pc = "done" => outcome = Resolved(StoredMedia)
        /\ Cardinality(Calls("put")) <= 1
        /\ (pc = "done" /\ outcome.ok)
               => /\ Cardinality(Calls("put")) = 1
                  /\ \A i \in Calls("put") : events[i].arg = Some(outcome.value)
        /\ (pc = "done" /\ ~outcome.ok) => Calls("put") = {}

\* A hit: the cached Media was put back and returned, with no request.
C20_Witness ==
    /\ op.name = "lookup"
    /\ pc = "done"
    /\ cached = Some(StoredMedia)
    /\ events = <<Event("get", None), Event("put", Some(StoredMedia))>>
    /\ outcome = Resolved(StoredMedia)

\* ---------------------------------------------------------------------------
\* Two invocations of lookupPlaylist against an upstream that answers every
\* page of a playlist the same way each time it is asked.
\* ---------------------------------------------------------------------------

MaxPairPage == 3

Invocations == {1, 2}
PlaylistIds == {"PLa", "PLb"}

\* What the upstream may hold on a page: one video or two (one of them with
\* no duration) of a playlist declared at the limit, the whole of a playlist
\* of two, nothing, or a declared count over the limit.
PairPages ==
    {[videoCount |-> PLAYLIST_ITEM_LIMIT,
      videos |-> <<[videoId |-> 1, lengthSeconds |-> 60]>>],
     [videoCount |-> PLAYLIST_ITEM_LIMIT,
      videos |-> <<[videoId |-> 2, lengthSeconds |-> 60], [videoId |-> 3]>>],
     [videoCount |-> 2,
      videos |-> <<[videoId |-> 2, lengthSeconds |-> 60], [videoId |-> 3]>>],
     [videoCount |-> PLAYLIST_ITEM_LIMIT, videos |-> << >>],
     [videoCount |-> PLAYLIST_ITEM_LIMIT + 1,
      videos |-> <<[videoId |-> 1, lengthSeconds |-> 60]>>]}

PairResponses ==
    {[statusCode |-> 200, data |-> JsonBody(p)] : p \in PairPages}
        \cup {[statusCode |-> 404, data |-> NonJsonBody]}

PairInit ==
    /\ instance \in Instances
    /\ cache = NoCache
    /\ Idle

\* The resultsMap object an invocation works on, were there one for all.
Acc_Shared(i) == 1

\* The resultsMap object an invocation works on: const resultsMap = {} (line
\* 156) makes one for each.
Acc(i) == i

\* The first page number, were page a counter that outlives the invocation.
FirstPageNumber_Continued(i) ==
    IF \E j \in DOMAIN inv : j # i
    THEN inv[CHOOSE j \in DOMAIN inv : j # i].page + 1
    ELSE 1

\* let page = 1 (line 159)
FirstPageNumber(i) == 1

\* The locals of an invocation at its first await (lines 152-163).
StartLocals(id, first) ==
    IF instance = NULL
    THEN [id |-> id, pc |-> "done", page |-> 0, res |-> NoRes, resultsLength |-> 0,
          outcome |-> Rejected(NotConfigured), requests |-> << >>]
    ELSE [id |-> id, pc |-> "page1", page |-> first, res |-> NoRes,
          resultsLength |-> 0, outcome |-> Pending, requests |-> <<first>>]

\* Lines 171-185 for the locals l and the accumulator map: the loop goes
\* round to its await, or ends with the outcome.
Continue(l, map) ==
    IF /\ Len(l.res.videos) # 0
       /\ l.resultsLength < PLAYLIST_ITEM_LIMIT
       /\ l.resultsLength # l.res.videoCount
    THEN IF l.page < MaxPairPage
         THEN [l EXCEPT !.page = @ + 1,
                        !.requests = Append(@, l.page + 1),
                        !.pc = "next"]
         ELSE [l EXCEPT !.pc = "loop"]
    ELSE [l EXCEPT
            !.pc = "done",
            !.outcome =
                IF l.resultsLength >= PLAYLIST_ITEM_LIMIT
                THEN Rejected(PlaylistTooLong)
                ELSE LET medias == MapToMedia(WithDuration(map)) IN
                     IF medias.ok THEN Resolved(medias.value)
                     ELSE Rejected(medias.error)]

\* A page arrives for the locals l and the accumulator map (lines 163-170 for
\* the first page, 175-177 for a later one), and the code runs on to its next
\* await or to its end.
Arrived(l, map, response) ==
    LET r == ivRequest(response) IN
    IF ~r.ok
    THEN [locals |-> [l EXCEPT !.pc = "done", !.outcome = Rejected(r.error)],
          map |-> map]
    ELSE IF l.pc = "page1" /\ DeclaredTooLong(r.value)
    THEN [locals |-> [l EXCEPT !.pc = "done", !.res = r.value,
                               !.outcome = Rejected(PlaylistTooLong)],
          map |-> map]
    ELSE LET merged == Merge(map, r.value.videos)
             counted == [l EXCEPT !.res = r.value,
                                  !.resultsLength = KeysLength(merged)]
         IN  [locals |-> Continue(counted, merged), map |-> merged]

Awaiting(l) == l.pc \in {"page1", "next"}

\* lookupPlaylist(id) is called (lines 152-163).
PairCall(i) ==
    /\ i \notin DOMAIN inv
    /\ \E id \in PlaylistIds :
        inv' = (i :> StartLocals(id, FirstPageNumber(i))) @@ inv
    /\ maps' = IF instance = NULL THEN maps ELSE (Acc(i) :> << >>) @@ maps
    /\ UNCHANGED upstream

\* The page an invocation awaits arrives (lines 163-185): the upstream
\* answers as it answered before for that page of that playlist.
PairArrives(i) ==
    /\ i \in DOMAIN inv
    /\ Awaiting(inv[i])
    /\ LET key == <<inv[i].id, inv[i].page>> IN
       \E response \in IF key \in DOMAIN upstream THEN {upstream[key]}
                       ELSE PairResponses :
           LET a == Arrived(inv[i], maps[Acc(i)], response)
           IN  /\ inv' = [inv EXCEPT ![i] = a.locals]
               /\ maps' = [maps EXCEPT ![Acc(i)] = a.map]
               /\ upstream' = (key :> response) @@ upstream

Invoke ==
    /\ \E i \in Invocations : PairCall(i)
    /\ UNCHANGED <<instance, pc, page, httpRes, res, resultsMap, resultsLength,
                   outcome, requests, served, apiVars>>

PageArrives ==
    /\ \E i \in Invocations : PairArrives(i)
    /\ UNCHANGED <<instance, pc, page, httpRes, res, resultsMap, resultsLength,
                   outcome, requests, served, apiVars>>

PairNext == Invoke \/ PageArrives

PairSpec == PairInit /\ [][PairNext]_vars

\* The pages an invocation has received.
Received(l) == IF Awaiting(l) THEN Len(l.requests) - 1 ELSE Len(l.requests)

\* lookupPlaylist run alone against the upstream, with locals l and
\* accumulator map of its own, for n pages.
RECURSIVE AloneFrom(_, _, _)
AloneFrom(l, map, n) ==
    IF n = 0 \/ ~Awaiting(l) THEN [locals |-> l, map |-> map]
    ELSE IF <<l.id, l.page>> \notin DOMAIN upstream
    THEN [locals |-> [l EXCEPT !.pc = "unanswered"], map |-> map]
    ELSE LET a == Arrived(l, map, upstream[<<l.id, l.page>>])
         IN  AloneFrom(a.locals, a.map, n - 1)

Alone(id, n) == AloneFrom(StartLocals(id, 1), << >>, n)

SameOutcome(k, l) ==
    /\ k.outcome.ok = l.outcome.ok
    /\ ~k.outcome.ok => k.outcome.error = l.outcome.error
    /\ k.outcome.ok =>
           {k.outcome.value[n] : n \in 1..Len(k.outcome.value)}
               = {l.outcome.value[n] : n \in 1..Len(l.outcome.value)}

\* C14: two resolutions of the same playlist id against an unchanged
\* upstream end the same way: the same error or set-equal results, after the
\* same sequence of page requests.
C14_SamePlaylistSameOutcome ==
    \A i \in DOMAIN inv : \A j \in DOMAIN inv :
        (inv[i].id = inv[j].id /\ ~Awaiting(inv[i]) /\ ~Awaiting(inv[j]))
            => /\ inv[i].requests = inv[j].requests
               /\ inv[i].pc = inv[j].pc
               /\ inv[i].pc = "done" => SameOutcome(inv[i], inv[j])

\* The same playlist resolved twice over two pages, one video back each time.
C14_Witness ==
    /\ DOMAIN inv = Invocations
    /\ inv[1].id = inv[2].id
    /\ inv[1].pc = "done" /\ inv[2].pc = "done"
    /\ inv[1].requests = <<1, 2>>
    /\ inv[2].requests = <<1, 2>>
    /\ inv[1].outcome.ok /\ inv[2].outcome.ok
    /\ Len(inv[1].outcome.value) = 1

\* C16: two invocations interleaved at their awaits share nothing: at every
\* point each one's page counter, declared count, accumulator, page requests
\* and outcome are those of a run alone over the pages it has received.
C16_InterleavedAsAlone ==
    \A i \in DOMAIN inv :
        LET alone == Alone(inv[i].id, Received(inv[i]))
        IN  /\ inv[i] = alone.locals
            /\ instance # NULL => /\ i \in DOMAIN maps
                                  /\ maps[i] = alone.map

\* Two playlists in flight at once, each having merged a different first page
\* and awaiting its second.
C16_Witness ==
    /\ DOMAIN inv = Invocations
    /\ inv[1].id # inv[2].id
    /\ inv[1].pc = "next" /\ inv[2].pc = "next"
    /\ maps[1] # maps[2]
    /\ inv[1].res # inv[2].res
====
